---- MODULE Spec2Model ----
(***************************************************************************)
(* Lineup selector of suspension_analyzer.py (dual-sheet mode): the greedy *)
(* assignment optimizer, the weight-sum gate of its Calculate button, the  *)
(* manual overrides of the two lineup tables and the display derived from  *)
(* the session state.                                                      *)
(*                                                                         *)
(* Numbers.  Corner weights are percentages entered as floats; they are    *)
(* kept here in fixed point, one unit = 0.001 %, so 100 % = 100000 units   *)
(* and the gate's tolerance 0.01 = 10 units.  A combined score is kept     *)
(* multiplied by 100 (the code divides every weight by 100), which leaves  *)
(* every comparison between two scores unchanged.  float('inf') is INF.    *)
(* Damper lengths are small integers; only their order is used.            *)
(***************************************************************************)
EXTENDS Integers, Sequences, FiniteSets, TLC

\* ---- bounds of the explored working sets ----
MaxCenters == 3
NumFrontClips == 2
NumRearClips == 2
MaxLen == 3
MaxSeed == 1
MaxAbsent == 1

\* ---- bounds of the explored uploads ----
PipeCenters == 2
PipeClips == 2
PipeZ == 3
MaxShift == 2
MaxNaN == 1
MaxUploads == 2
MaxOffset == 2

VARIABLES
    df_front_calc,        \* st.session_state['df_front_calc']: rows of the front sheet
    df_rear_calc,         \* st.session_state['df_rear_calc']: rows of the rear sheet
    df_front_calc_ranks,  \* the front rows with the rank columns the selector tab adds
    df_rear_calc_ranks,   \* the rear rows with the rank columns the selector tab adds
    corner_weights,       \* st.session_state['corner_weights']
    lineup_assignments,   \* st.session_state['lineup_assignments']
    manual_order_mode,    \* st.session_state['manual_order_mode']
    last_calculate_time,  \* st.session_state['last_calculate_time']
    center_best_combos,   \* the list built by the most recent optimizer run
    total_weight,         \* total of the four weight inputs (widget state)
    calculate_button,     \* value the Calculate button returned in the last user request
    changes_made,         \* whether the last user request was an accepted table edit
    override_since_run,   \* history: a clip was overridden after the most recent optimizer run
    using_multi_sheet,    \* st.session_state['using_multi_sheet']
    df,                   \* the frame read from the uploaded file (the front sheet of two)
    df_front,             \* st.session_state['df_front']
    df_rear,              \* st.session_state['df_rear']
    config,               \* st.session_state['config']
    results_df,           \* st.session_state['results_df']
    recompute_result,     \* how the most recent recompute request ended
    recomputes_of_upload, \* history: the normalize_lca_z settings of the recomputes of the
                          \* sheets now uploaded that have completed, the last two of them
    lca_center_z,         \* history: the lf/rf/lr/rr_lca_center_z Series the latest recompute
                          \* that derived every length used for the lower mounts
    upload_count,         \* history: the number of files chosen in the uploader so far
    lower_mount_y,        \* history: the lf/rf/lr/rr_lower_y Series of that recompute
    listed_missing_cols   \* the (corner, column) pairs the st.error lines of the latest
                          \* recompute list as missing

\* the session state the recompute writes and the uploaded sheets
pipeline_vars == <<using_multi_sheet, df, df_front, df_rear, config, results_df,
                   recompute_result, recomputes_of_upload, lca_center_z, upload_count,
                   lower_mount_y, listed_missing_cols>>

vars == <<df_front_calc, df_rear_calc, df_front_calc_ranks, df_rear_calc_ranks,
          corner_weights, lineup_assignments,
          manual_order_mode, last_calculate_time, center_best_combos,
          total_weight, calculate_button, changes_made, override_since_run,
          using_multi_sheet, df, df_front, df_rear, config, results_df,
          recompute_result, recomputes_of_upload, lca_center_z, upload_count,
                   lower_mount_y, listed_missing_cols>>

\* ---- numbers ----
INF == -1
HUNDRED == 100000
TOLERANCE == 10
DEFAULT_WEIGHT == 25000

ScoreLess(a, b) == a # INF /\ (b = INF \/ a < b)

Abs(x) == IF x < 0 THEN -x ELSE x

\* ---- helpers on sets and sequences ----
MinOf(S) == CHOOSE x \in S : \A y \in S : x <= y

RECURSIVE SortedSeq(_)
SortedSeq(S) == IF S = {} THEN <<>>
                ELSE <<MinOf(S)>> \o SortedSeq(S \ {MinOf(S)})

SeqRange(s) == {s[i] : i \in 1..Len(s)}

\* ---- numbers of the recompute ----
\* A coordinate is an integer or NaN (an empty cell).  Every explored sheet
\* holds multiples of 4, which keeps the two halvings (LCA center, median of
\* an even count) exact.  A damper length is kept as its square: np.sqrt is
\* strictly increasing, so order and equality of lengths are those of the
\* squares, and NaN stays NaN.
NaN == -999999

Add(a, b) == IF a = NaN \/ b = NaN THEN NaN ELSE a + b
Sub(a, b) == IF a = NaN \/ b = NaN THEN NaN ELSE a - b
Half(a) == IF a = NaN THEN NaN ELSE a \div 2
Sq(a) == IF a = NaN THEN NaN ELSE a * a

\* np.sqrt((x2 - x1)**2 + (y2 - y1)**2 + (z2 - z1)**2), squared; the x columns
\* are left out of the sheets (x1 = x2 in every explored record)
calc_distance(y1, z1, y2, z2) == Add(Sq(Sub(y2, y1)), Sq(Sub(z2, z1)))

\* the values of a sequence in ascending order: position p holds the value
\* that has fewer than p values below it and at least p values not above it
sort_ascending(vals) ==
    [p \in 1..Len(vals) |->
        CHOOSE v \in {vals[i] : i \in 1..Len(vals)} :
            /\ Cardinality({j \in 1..Len(vals) : vals[j] < v}) < p
            /\ p <= Cardinality({j \in 1..Len(vals) : vals[j] <= v})]

\* Series.median(): NaN skipped; the middle value, or the mean of the two
\* middle values
median(vals) ==
    LET present == sort_ascending(SelectSeq(vals, LAMBDA v : v # NaN))
        n == Len(present)
    IN  IF n = 0 THEN NaN
        ELSE IF n % 2 = 1 THEN present[(n + 1) \div 2]
        ELSE Half(present[n \div 2] + present[(n \div 2) + 1])

\* ---- sheets and the column mapping ----
\* A row is a function from column names to cell values.  The logical fields
\* of a corner are mapped to the columns <prefix>_<part>.
Parts == {"Upper_Y", "Upper_Z", "LCA_Front_Y", "LCA_Front_Z", "LCA_Rear_Y", "LCA_Rear_Z"}
LcaParts == {"LCA_Front_Y", "LCA_Front_Z", "LCA_Rear_Y", "LCA_Rear_Z"}
UpperParts == {"Upper_Y", "Upper_Z"}
Col(prefix, part) == prefix \o "_" \o part

columns(frame) == IF frame = <<>> THEN {} ELSE DOMAIN frame[1]

\* config['lf_upper_z'] and so on: the column a logical field is mapped to
mapped_col(cfg, corner, part) == Col(cfg.prefix[corner], part)
mapped_cols(cfg, corner, parts) == {mapped_col(cfg, corner, part) : part \in parts}

\* (frame[front] + frame[rear]) / 2, one value per row
lca_center(frame, cfg, corner, axis) ==
    [i \in 1..Len(frame) |->
        Half(Add(frame[i][mapped_col(cfg, corner, "LCA_Front_" \o axis)],
                 frame[i][mapped_col(cfg, corner, "LCA_Rear_" \o axis)]))]

\* pd.concat of the four center z columns and its median
median_z(front, rear, cfg) ==
    median(lca_center(front, cfg, "LF", "Z") \o lca_center(front, cfg, "RF", "Z")
           \o lca_center(rear, cfg, "LR", "Z") \o lca_center(rear, cfg, "RR", "Z"))

\* variant of the lower mount that applies the offset with its input sign
lower_y_signed(center_y, corner, cfg) ==
    IF corner \in {"LF", "LR"} THEN Sub(center_y, cfg.y_offset[corner])
    ELSE Add(center_y, cfg.y_offset[corner])

\* lower mount y: left corners center y - |offset|, right corners + |offset|
lower_y(center_y, corner, cfg) ==
    IF corner \in {"LF", "LR"} THEN Sub(center_y, Abs(cfg.y_offset[corner]))
    ELSE Add(center_y, Abs(cfg.y_offset[corner]))

\* the lf/rf/lr/rr_lower_y Series of a sheet
lower_y_column(frame, cfg, corner) ==
    [i \in 1..Len(frame) |-> lower_y(lca_center(frame, cfg, corner, "Y")[i], corner, cfg)]

\* the damper length column of one corner; lower_z is the center z column,
\* or the median in every row
damper_length(frame, cfg, corner, lower_z) ==
    [i \in 1..Len(frame) |->
        calc_distance(frame[i][mapped_col(cfg, corner, "Upper_Y")],
                      frame[i][mapped_col(cfg, corner, "Upper_Z")],
                      lower_y_column(frame, cfg, corner)[i],
                      lower_z[i])]

\* frame[name] = column
with_column(frame, name, column) ==
    [i \in 1..Len(frame) |-> [c \in DOMAIN frame[i] \cup {name} |->
                              IF c = name THEN column[i] ELSE frame[i][c]]]

\* pd.Series([median_z] * len(...))
all_rows(frame, value) == [i \in 1..Len(frame) |-> value]

\* ---- merge, dropna, ranks of results_df ----
LengthColumns == {"LF_Damper_Length", "RF_Damper_Length",
                  "LR_Damper_Length", "RR_Damper_Length"}

\* the row of the merge for one front row and one rear row
merged_row(f, r) ==
    [Center_Section |-> f.Center_Section,
     Front_Clip |-> f.Clip, LF_Damper_Length |-> f.LF_Damper_Length,
     RF_Damper_Length |-> f.RF_Damper_Length,
     Rear_Clip |-> r.Clip, LR_Damper_Length |-> r.LR_Damper_Length,
     RR_Damper_Length |-> r.RR_Damper_Length]

\* variant of the merge that joins on the clip column too
merge_on_center_and_clip(front, rear) ==
    LET RECURSIVE rows_from(_, _)
        rows_from(i, j) ==
            IF i > Len(front) THEN <<>>
            ELSE IF j > Len(rear) THEN rows_from(i + 1, 1)
            ELSE IF front[i].Center_Section = rear[j].Center_Section
                    /\ front[i].Clip = rear[j].Clip
                 THEN <<merged_row(front[i], rear[j])>> \o rows_from(i, j + 1)
                 ELSE rows_from(i, j + 1)
    IN  rows_from(1, 1)

\* pd.merge(df_front_renamed, df_rear_renamed, on=[center_section_col],
\* how='inner'): left order kept, right order within one left row
merge(front, rear) ==
    LET RECURSIVE rows_from(_, _)
        rows_from(i, j) ==
            IF i > Len(front) THEN <<>>
            ELSE IF j > Len(rear) THEN rows_from(i + 1, 1)
            ELSE IF front[i].Center_Section = rear[j].Center_Section
                 THEN <<merged_row(front[i], rear[j])>> \o rows_from(i, j + 1)
                 ELSE rows_from(i, j + 1)
    IN  rows_from(1, 1)

\* results_df['Clip_Combination'] = Front_Clip + ' / ' + Rear_Clip, kept as
\* the pair of the two clips
with_clip_combination(frame) ==
    with_column(frame, "Clip_Combination",
                [i \in 1..Len(frame) |-> <<frame[i].Front_Clip, frame[i].Rear_Clip>>])

\* results_df.dropna(subset=[the four length columns])
dropna(frame) == SelectSeq(frame, LAMBDA row : \A c \in LengthColumns : row[c] # NaN)

\* the values of a sequence in descending order
sort_descending(vals) ==
    [p \in 1..Len(vals) |->
        CHOOSE v \in {vals[i] : i \in 1..Len(vals)} :
            /\ Cardinality({j \in 1..Len(vals) : vals[j] > v}) < p
            /\ p <= Cardinality({j \in 1..Len(vals) : vals[j] >= v})]

\* variant of the ranking in which equal values get consecutive ranks
rank_first(vals, ascending) ==
    LET before(j, i) == \/ IF ascending THEN vals[j] < vals[i] ELSE vals[j] > vals[i]
                        \/ vals[j] = vals[i] /\ j < i
    IN  [i \in 1..Len(vals) |-> 1 + Cardinality({j \in 1..Len(vals) : before(j, i)})]

\* Series.rank(ascending=..., method='min').astype(int): the values are put
\* in order and every value gets the first position of its group of equals
rank(vals, ascending) ==
    LET ordered == IF ascending THEN sort_ascending(vals) ELSE sort_descending(vals)
    IN  [i \in 1..Len(vals) |->
            MinOf({p \in 1..Len(ordered) : ordered[p] = vals[i]})]

column_of(frame, name) == [i \in 1..Len(frame) |-> frame[i][name]]

\* sort_values('LF_Damper_Length', ascending=False).reset_index(drop=True);
\* rows of equal length keep their order
sort_by_LF_descending(frame) ==
    LET position(i) ==
            1 + Cardinality({j \in 1..Len(frame) :
                    \/ frame[j].LF_Damper_Length > frame[i].LF_Damper_Length
                    \/ /\ frame[j].LF_Damper_Length = frame[i].LF_Damper_Length
                       /\ j < i})
    IN  [p \in 1..Len(frame) |-> frame[CHOOSE i \in 1..Len(frame) : position(i) = p]]

\* (LF_Rank * 2) + (RF_Rank * 1)
front_weighted_score(lf_rank, rf_rank) == (lf_rank * 2) + (rf_rank * 1)

\* variant of the re-ranking that gives rank 1 to the highest score
front_rank_descending(scores) == rank(scores, FALSE)

\* results_df['Front_Weighted_Score'].rank(method='min').astype(int)
front_rank(scores) == rank(scores, TRUE)

\* lines 652-667: dropna, the four corner ranks, Front_Weighted_Score,
\* Front_Rank, the final sort
ranked(frame) ==
    LET kept == dropna(frame)
        r1 == with_column(kept, "LF_Rank", rank(column_of(kept, "LF_Damper_Length"), FALSE))
        r2 == with_column(r1, "RF_Rank", rank(column_of(kept, "RF_Damper_Length"), FALSE))
        r3 == with_column(r2, "LR_Rank", rank(column_of(kept, "LR_Damper_Length"), FALSE))
        r4 == with_column(r3, "RR_Rank", rank(column_of(kept, "RR_Damper_Length"), FALSE))
        score == [i \in 1..Len(r4) |-> front_weighted_score(r4[i].LF_Rank, r4[i].RF_Rank)]
        r5 == with_column(r4, "Front_Weighted_Score", score)
        r6 == with_column(r5, "Front_Rank", front_rank(score))
    IN  sort_by_LF_descending(r6)

\* ---- the two per-sheet rank tables (selector tab) ----
\* Series.rank(ascending=False, method='min') is 1 + the number of strictly
\* greater values of the column
\* df_front_calc.copy() with the columns LF_Rank and RF_Rank, rows 1..n
RECURSIVE front_rank_rows(_, _)
front_rank_rows(frame, n) ==
    IF n = 0 THEN <<>>
    ELSE Append(front_rank_rows(frame, n - 1),
                [Center_Section |-> frame[n].Center_Section, Clip |-> frame[n].Clip,
                 LF_Damper_Length |-> frame[n].LF_Damper_Length,
                 RF_Damper_Length |-> frame[n].RF_Damper_Length,
                 LF_Rank |-> 1 + Cardinality({j \in 1..Len(frame) :
                                frame[j].LF_Damper_Length > frame[n].LF_Damper_Length}),
                 RF_Rank |-> 1 + Cardinality({j \in 1..Len(frame) :
                                frame[j].RF_Damper_Length > frame[n].RF_Damper_Length})])
front_ranks(frame) == front_rank_rows(frame, Len(frame))

\* df_rear_calc.copy() with the columns LR_Rank and RR_Rank, rows 1..n
RECURSIVE rear_rank_rows(_, _)
rear_rank_rows(frame, n) ==
    IF n = 0 THEN <<>>
    ELSE Append(rear_rank_rows(frame, n - 1),
                [Center_Section |-> frame[n].Center_Section, Clip |-> frame[n].Clip,
                 LR_Damper_Length |-> frame[n].LR_Damper_Length,
                 RR_Damper_Length |-> frame[n].RR_Damper_Length,
                 LR_Rank |-> 1 + Cardinality({j \in 1..Len(frame) :
                                frame[j].LR_Damper_Length > frame[n].LR_Damper_Length}),
                 RR_Rank |-> 1 + Cardinality({j \in 1..Len(frame) :
                                frame[j].RR_Damper_Length > frame[n].RR_Damper_Length})])
rear_ranks(frame) == rear_rank_rows(frame, Len(frame))

FrontRows == 1..Len(df_front_calc_ranks)
RearRows == 1..Len(df_rear_calc_ranks)

\* sorted(results_df[center_section_col].unique())
all_center_sections ==
    SortedSeq({results_df[i].Center_Section : i \in 1..Len(results_df)})
all_front_clips == SortedSeq({df_front_calc_ranks[i].Clip : i \in FrontRows})
all_rear_clips == SortedSeq({df_rear_calc_ranks[j].Clip : j \in RearRows})

\* df[(df[center_section_col] == cs) & (df[clip_col] == clip)]
front_rows(cs, clip) == {i \in FrontRows : df_front_calc_ranks[i].Center_Section = cs
                                          /\ df_front_calc_ranks[i].Clip = clip}
rear_rows(cs, clip) == {j \in RearRows : df_rear_calc_ranks[j].Center_Section = cs
                                        /\ df_rear_calc_ranks[j].Clip = clip}

\* (lf_rank*lf_weight/100) + (rf_rank*rf_weight/100) + (lr_rank*lr_weight/100)
\*   + (rr_rank*rr_weight/100), times 100; the ranks are those of .iloc[0]
combined_score(cs, front_clip, rear_clip, w) ==
    LET fi == MinOf(front_rows(cs, front_clip))
        ri == MinOf(rear_rows(cs, rear_clip))
    IN  df_front_calc_ranks[fi].LF_Rank * w.LF + df_front_calc_ranks[fi].RF_Rank * w.RF
        + df_rear_calc_ranks[ri].LR_Rank * w.LR + df_rear_calc_ranks[ri].RR_Rank * w.RR

\* ---- calculate_optimal_assignments ----
\* the k-th (front_clip, rear_clip) of "for front_clip in all_front_clips:
\* for rear_clip in all_rear_clips"
Pair(k) == [front_clip |-> all_front_clips[((k - 1) \div Len(all_rear_clips)) + 1],
            rear_clip |-> all_rear_clips[((k - 1) % Len(all_rear_clips)) + 1]]
NumPairs == Len(all_front_clips) * Len(all_rear_clips)

\* variant of the search in which a pair of equal score replaces the best
RECURSIVE best_combo_last_wins(_, _, _, _, _, _)
best_combo_last_wins(cs, w, used_front_clips, used_rear_clips, k, best) ==
    IF k > NumPairs THEN best
    ELSE LET p == Pair(k)
             skip == \/ p.front_clip \in used_front_clips
                     \/ front_rows(cs, p.front_clip) = {}
                     \/ p.rear_clip \in used_rear_clips
                     \/ rear_rows(cs, p.rear_clip) = {}
             s == combined_score(cs, p.front_clip, p.rear_clip, w)
         IN  IF ~skip /\ (ScoreLess(s, best.score) \/ s = best.score)
             THEN best_combo_last_wins(cs, w, used_front_clips, used_rear_clips, k + 1,
                             [found |-> TRUE, front_clip |-> p.front_clip,
                              rear_clip |-> p.rear_clip, score |-> s])
             ELSE best_combo_last_wins(cs, w, used_front_clips, used_rear_clips, k + 1, best)

\* variant of the search that does not skip the rear clips already used
RECURSIVE best_combo_rear_unchecked(_, _, _, _, _, _)
best_combo_rear_unchecked(cs, w, used_front_clips, used_rear_clips, k, best) ==
    IF k > NumPairs THEN best
    ELSE LET p == Pair(k)
             skip == \/ p.front_clip \in used_front_clips
                     \/ front_rows(cs, p.front_clip) = {}
                     \/ rear_rows(cs, p.rear_clip) = {}
             s == combined_score(cs, p.front_clip, p.rear_clip, w)
         IN  IF ~skip /\ ScoreLess(s, best.score)
             THEN best_combo_rear_unchecked(cs, w, used_front_clips, used_rear_clips, k + 1,
                             [found |-> TRUE, front_clip |-> p.front_clip,
                              rear_clip |-> p.rear_clip, score |-> s])
             ELSE best_combo_rear_unchecked(cs, w, used_front_clips, used_rear_clips, k + 1, best)

\* the two nested loops over all_front_clips and all_rear_clips for one center
\* section, from the k-th (front_clip, rear_clip) of the nested iteration on
RECURSIVE best_combo(_, _, _, _, _, _)
best_combo(cs, w, used_front_clips, used_rear_clips, k, best) ==
    IF k > NumPairs THEN best
    ELSE LET p == Pair(k)
             skip == \/ p.front_clip \in used_front_clips
                     \/ front_rows(cs, p.front_clip) = {}
                     \/ p.rear_clip \in used_rear_clips
                     \/ rear_rows(cs, p.rear_clip) = {}
             s == combined_score(cs, p.front_clip, p.rear_clip, w)
         IN  IF ~skip /\ ScoreLess(s, best.score)
             THEN best_combo(cs, w, used_front_clips, used_rear_clips, k + 1,
                             [found |-> TRUE, front_clip |-> p.front_clip,
                              rear_clip |-> p.rear_clip, score |-> s])
             ELSE best_combo(cs, w, used_front_clips, used_rear_clips, k + 1, best)

\* variant of the fallback that always takes the globally first clip
fallback_clip_global_first(clips, used) == clips[1]

\* next((c for c in clips if c not in used), clips[0])
fallback_clip(clips, used) ==
    IF \E i \in 1..Len(clips) : clips[i] \notin used
    THEN clips[MinOf({i \in 1..Len(clips) : clips[i] \notin used})]
    ELSE clips[1]

\* variants of the initial used sets that carry the stored Assignment over
used_front_clips_from_prior ==
    {lineup_assignments[c].front_clip : c \in DOMAIN lineup_assignments}
used_rear_clips_from_prior ==
    {lineup_assignments[c].rear_clip : c \in DOMAIN lineup_assignments}

\* used_front_clips = set() / used_rear_clips = set()
used_front_clips_init == {}
used_rear_clips_init == {}

\* variant of combo_for that searches the clips of earlier sections too
combo_for_ignoring_used(cs, w, used_front_clips, used_rear_clips) ==
    LET best == best_combo(cs, w, {}, {}, 1,
                           [found |-> FALSE, front_clip |-> 0, rear_clip |-> 0,
                            score |-> INF])
    IN  IF best.found
        THEN [center |-> cs, front_clip |-> best.front_clip,
              rear_clip |-> best.rear_clip, score |-> best.score]
        ELSE [center |-> cs,
              front_clip |-> fallback_clip(all_front_clips, used_front_clips),
              rear_clip |-> fallback_clip(all_rear_clips, used_rear_clips),
              score |-> INF]

\* one iteration of "for cs in all_center_sections": the entry appended to
\* center_best_combos
combo_for(cs, w, used_front_clips, used_rear_clips) ==
    LET best == best_combo(cs, w, used_front_clips, used_rear_clips, 1,
                           [found |-> FALSE, front_clip |-> 0, rear_clip |-> 0,
                            score |-> INF])
    IN  IF best.found
        THEN [center |-> cs, front_clip |-> best.front_clip,
              rear_clip |-> best.rear_clip, score |-> best.score]
        ELSE [center |-> cs,
              front_clip |-> fallback_clip(all_front_clips, used_front_clips),
              rear_clip |-> fallback_clip(all_rear_clips, used_rear_clips),
              score |-> INF]

\* variant of add_used that forgets the clip
add_used_forgotten(used, clip) == used

\* used_front_clips.add(...) / used_rear_clips.add(...)
add_used(used, clip) == used \cup {clip}

RECURSIVE optimizer_loop(_, _, _, _, _)
optimizer_loop(w, n, used_front_clips, used_rear_clips, combos) ==
    IF n > Len(all_center_sections) THEN combos
    ELSE LET c == combo_for(all_center_sections[n], w, used_front_clips, used_rear_clips)
         IN  optimizer_loop(w, n + 1, add_used(used_front_clips, c.front_clip),
                            add_used(used_rear_clips, c.rear_clip), Append(combos, c))

\* the list center_best_combos at the end of a run with weights w
run_combos(w) == optimizer_loop(w, 1, used_front_clips_init, used_rear_clips_init, <<>>)

\* "Store assignments": the dict the function returns
assignments_of(combos) ==
    [cs \in {combos[i].center : i \in 1..Len(combos)} |->
        LET c == combos[CHOOSE i \in 1..Len(combos) : combos[i].center = cs]
        IN  [front_clip |-> c.front_clip, rear_clip |-> c.rear_clip]]

calculate_optimal_assignments(w) == assignments_of(run_combos(w))

\* ---- the display built from the session state ----
assigned_rows_exist(center) ==
    /\ front_rows(center, lineup_assignments[center].front_clip) # {}
    /\ rear_rows(center, lineup_assignments[center].rear_clip) # {}

\* weighted_score of the currently assigned pair, float('inf') without both rows
center_score(center) ==
    IF assigned_rows_exist(center)
    THEN combined_score(center, lineup_assignments[center].front_clip,
                        lineup_assignments[center].rear_clip, corner_weights)
    ELSE INF

\* variant of the default ordering that leaves the sections unsorted
sorted_by_score_unsorted == all_center_sections

\* sorted(center_scores, key=lambda x: x[1]): stable, ascending
sorted_by_score ==
    LET n == Len(all_center_sections)
        before(i, j) == \/ ScoreLess(center_score(all_center_sections[i]),
                                     center_score(all_center_sections[j]))
                        \/ /\ center_score(all_center_sections[i])
                              = center_score(all_center_sections[j])
                           /\ i < j
        pos(i) == 1 + Cardinality({j \in 1..n : before(j, i)})
    IN  [p \in 1..n |-> all_center_sections[CHOOSE i \in 1..n : pos(i) = p]]

sorted_centers ==
    IF manual_order_mode THEN all_center_sections ELSE sorted_by_score

\* the centers of the rows of df_front_table / df_rear_table, in display order
table_centers == SelectSeq(sorted_centers, assigned_rows_exist)

\* the "What If" lookup of the current pair of the selected center section:
\* df_front_calc_ranks[current_front_mask].iloc[0] and the same on the rear
\* table; .iloc[0] of an empty selection raises IndexError
whatif_current_pair(whatif_center) ==
    LET current_front_mask ==
            front_rows(whatif_center, lineup_assignments[whatif_center].front_clip)
        current_rear_mask ==
            rear_rows(whatif_center, lineup_assignments[whatif_center].rear_clip)
    IN  IF current_front_mask = {} \/ current_rear_mask = {}
        THEN [raised |-> "IndexError"]
        ELSE [raised |-> "",
              LF |-> df_front_calc_ranks[MinOf(current_front_mask)].LF_Damper_Length,
              RF |-> df_front_calc_ranks[MinOf(current_front_mask)].RF_Damper_Length,
              LR |-> df_rear_calc_ranks[MinOf(current_rear_mask)].LR_Damper_Length,
              RR |-> df_rear_calc_ranks[MinOf(current_rear_mask)].RR_Damper_Length]

\* value_counts() > 1 over the Front_Clip / Rear_Clip column of the tables
front_duplicates ==
    {lineup_assignments[c].front_clip : c \in
        {c \in SeqRange(table_centers) : \E d \in SeqRange(table_centers) :
            d # c /\ lineup_assignments[d].front_clip = lineup_assignments[c].front_clip}}
rear_duplicates ==
    {lineup_assignments[c].rear_clip : c \in
        {c \in SeqRange(table_centers) : \E d \in SeqRange(table_centers) :
            d # c /\ lineup_assignments[d].rear_clip = lineup_assignments[c].rear_clip}}

\* ---- the working sets explored ----
\* the values of the four weight inputs the user requests a run with
WeightInputs ==
    { [LF |-> 25000, RF |-> 25000, LR |-> 25000, RR |-> 25000],   \* 25 / 25 / 25 / 25
      [LF |-> 0, RF |-> 50000, LR |-> 0, RR |-> 50000],           \* 0 / 50 / 0 / 50
      [LF |-> 33333, RF |-> 33333, LR |-> 33333, RR |-> 0],       \* 33.333 x 3 / 0
      [LF |-> 24000, RF |-> 25000, LR |-> 25000, RR |-> 25000],   \* total 99
      [LF |-> 26000, RF |-> 25000, LR |-> 25000, RR |-> 25000] }  \* total 101

Total(w) == w.LF + w.RF + w.LR + w.RR

FrontKeys(n) == (1..n) \X (1..NumFrontClips)
RearKeys(n) == (1..n) \X (1..NumRearClips)

\* the keys in sheet order: by center section, then by clip
RECURSIVE KeySeq(_)
KeySeq(keys) ==
    IF keys = {} THEN <<>>
    ELSE LET k == CHOOSE k \in keys : \A o \in keys :
                     k[1] < o[1] \/ (k[1] = o[1] /\ k[2] <= o[2])
         IN  <<k>> \o KeySeq(keys \ {k})

RECURSIVE FrontSheetRows(_, _)
FrontSheetRows(ks, seed) ==
    IF ks = <<>> THEN <<>>
    ELSE LET cs == Head(ks)[1]
             clip == Head(ks)[2]
         IN  <<[Center_Section |-> cs, Clip |-> clip,
                LF_Damper_Length |-> 1 + ((cs + clip + seed) % MaxLen),
                RF_Damper_Length |-> 1 + ((cs * clip + seed) % MaxLen)]>>
             \o FrontSheetRows(Tail(ks), seed)
RECURSIVE RearSheetRows(_, _)
RearSheetRows(ks, seed) ==
    IF ks = <<>> THEN <<>>
    ELSE LET cs == Head(ks)[1]
             clip == Head(ks)[2]
         IN  <<[Center_Section |-> cs, Clip |-> clip,
                LR_Damper_Length |-> 1 + ((cs + 2 * clip + seed) % MaxLen),
                RR_Damper_Length |-> 1 + ((cs * clip + clip + seed) % MaxLen)]>>
             \o RearSheetRows(Tail(ks), seed)

FrontSheet(keys, seed) == FrontSheetRows(KeySeq(keys), seed)
RearSheet(keys, seed) == RearSheetRows(KeySeq(keys), seed)

\* variant of the initial weights that leaves the rear right corner at 20 %
DefaultWeights_short == [LF |-> DEFAULT_WEIGHT, RF |-> DEFAULT_WEIGHT,
                         LR |-> DEFAULT_WEIGHT, RR |-> DEFAULT_WEIGHT - 5000]

DefaultWeights == [LF |-> DEFAULT_WEIGHT, RF |-> DEFAULT_WEIGHT,
                   LR |-> DEFAULT_WEIGHT, RR |-> DEFAULT_WEIGHT]

\* a key that is not in st.session_state yet
NOT_SET == <<>>

\* ---- the uploads and configurations explored ----
\* the cell of corner number k (LF 1, RF 2, LR 3, RR 4) of the record of
\* center section cs and clip
raw_cell(cs, clip, k, part) ==
    CASE part = "Upper_Y" -> 0
      [] part = "Upper_Z" -> 4 * (PipeZ + ((cs + k) % 2))
      [] part = "LCA_Front_Y" -> 4 * ((cs + clip + k) % 2)
      [] part = "LCA_Rear_Y" -> 4 * ((clip + k) % 2)
      [] part = "LCA_Front_Z" -> 4 * ((cs + (clip * k)) % PipeZ)
      [] part = "LCA_Rear_Z" -> 4 * (((cs * clip) + k) % PipeZ)

corner_cells(prefix, cs, clip, k) ==
    [c \in {Col(prefix, part) : part \in Parts} |->
        raw_cell(cs, clip, k, CHOOSE part \in Parts : Col(prefix, part) = c)]

\* a row of the front sheet, of the rear sheet, of a single sheet
raw_front_row(cs, clip) ==
    [Center_Section |-> cs, Clip |-> clip]
    @@ corner_cells("Left", cs, clip, 1) @@ corner_cells("Right", cs, clip, 2)
raw_rear_row(cs, clip) ==
    [Center_Section |-> cs, Clip |-> clip]
    @@ corner_cells("Left", cs, clip, 3) @@ corner_cells("Right", cs, clip, 4)
raw_single_row(cs, clip) ==
    [Center_Section |-> cs, Clip |-> clip]
    @@ corner_cells("LF", cs, clip, 1) @@ corner_cells("RF", cs, clip, 2)
    @@ corner_cells("LR", cs, clip, 3) @@ corner_cells("RR", cs, clip, 4)

\* the sheet with one row per key, in key order; the center sections of the
\* sheet are those of the keys plus shift
raw_row(kind, cs, clip) ==
    CASE kind = "front" -> raw_front_row(cs, clip)
      [] kind = "rear" -> raw_rear_row(cs, clip)
      [] kind = "single" -> raw_single_row(cs, clip)

RECURSIVE sheet_rows(_, _, _)
sheet_rows(ks, shift, kind) ==
    IF ks = <<>> THEN <<>>
    ELSE <<raw_row(kind, Head(ks)[1] + shift, Head(ks)[2])>>
         \o sheet_rows(Tail(ks), shift, kind)

PipeKeys == KeySeq((1..PipeCenters) \X (1..PipeClips))

\* the sheet with the cell (row i, column col) empty in its first n rows
RECURSIVE with_nan(_, _, _)
with_nan(sheet, n, col) ==
    IF n = 0 \/ sheet = <<>> THEN sheet
    ELSE <<[Head(sheet) EXCEPT ![col] = NaN]>> \o with_nan(Tail(sheet), n - 1, col)

\* the sheet without the columns cols
without_columns(sheet, cols) ==
    [i \in 1..Len(sheet) |-> [c \in (DOMAIN sheet[i]) \ cols |-> sheet[i][c]]]

\* sets of columns a rear sheet may lack
RearLacking == {{"Left_Upper_Y", "Left_Upper_Z"}, {"Right_Upper_Z"}, {"Left_LCA_Front_Z"},
                {"Left_Upper_Z", "Right_Upper_Z"}}

\* an Excel file with two sheets selected / with one sheet
DualUpload(shift, nan, lack) ==
    [multi |-> TRUE,
     front |-> with_nan(sheet_rows(PipeKeys, 0, "front"), nan, "Left_Upper_Z"),
     rear |-> without_columns(sheet_rows(PipeKeys, shift, "rear"), lack)]
SingleUpload(nan) ==
    [multi |-> FALSE,
     front |-> with_nan(sheet_rows(PipeKeys, 0, "single"), nan, "LF_Upper_Z"),
     rear |-> <<>>]

Uploads ==
    {DualUpload(shift, 0, {}) : shift \in 0..MaxShift}
    \cup {DualUpload(0, nan, {}) : nan \in 1..MaxNaN}
    \cup {DualUpload(0, 0, lack) : lack \in RearLacking}
    \cup {SingleUpload(nan) : nan \in 0..MaxNaN}

\* the configuration the sidebar widgets hold: the fields of each corner are
\* mapped to the columns of the uploaded frame that carry its side (two
\* sheets) or its corner (one sheet)
config_input(multi, normalize_lca_z) ==
    [center_section_col |-> "Center_Section", clip_col |-> "Clip",
     prefix |-> IF multi THEN [LF |-> "Left", RF |-> "Right", LR |-> "Left", RR |-> "Right"]
                ELSE [LF |-> "LF", RF |-> "RF", LR |-> "LR", RR |-> "RR"],
     y_offset |-> [LF |-> 2, RF |-> 2, LR |-> 2, RR |-> 2],
     normalize_lca_z |-> normalize_lca_z]

\* ---- the recompute (Calculate Damper Lengths & Travel) ----
\* the entries of missing_rear_cols / missing_rr_cols
missing_cols(cfg, corner, rear) == mapped_cols(cfg, corner, Parts) \ columns(rear)

\* what the handler leaves in the session state when it ends as result
\* without having stored anything but the configuration
stored_nothing(result) ==
    [result |-> result, df_front_calc |-> df_front_calc,
     df_rear_calc |-> df_rear_calc, results_df |-> results_df,
     lca_center_z |-> lca_center_z, lower_mount_y |-> lower_mount_y,
     listed_missing_cols |-> {}]

\* the pairs listed by the st.error lines: those of missing_rear_cols, and
\* those of missing_rr_cols when the LR check has not stopped the script
listed(cfg, rear) ==
    IF missing_cols(cfg, "LR", rear) # {}
    THEN {<<"LR", col>> : col \in missing_cols(cfg, "LR", rear)}
    ELSE {<<"RR", col>> : col \in missing_cols(cfg, "RR", rear)}

\* the branch for two sheets, lines 460-598 and 652-670
recompute_multi(cfg) ==
    LET front == df_front
        rear == df_rear
        lower_z(sheet, corner) ==
            IF cfg.normalize_lca_z THEN all_rows(sheet, median_z(front, rear, cfg))
            ELSE lca_center(sheet, cfg, corner, "Z")
        with_lengths(sheet, left, right) ==
            with_column(
                with_column(sheet, left \o "_Damper_Length",
                            damper_length(sheet, cfg, left, lower_z(sheet, left))),
                right \o "_Damper_Length",
                damper_length(sheet, cfg, right, lower_z(sheet, right)))
        front_calc == with_lengths(front, "LF", "RF")
        rear_calc == with_lengths(rear, "LR", "RR")
        merged == merge(front_calc, rear_calc)
        used_z == [LF |-> lower_z(front, "LF"), RF |-> lower_z(front, "RF"),
                   LR |-> lower_z(rear, "LR"), RR |-> lower_z(rear, "RR")]
        used_y == [LF |-> lower_y_column(front, cfg, "LF"),
                   RF |-> lower_y_column(front, cfg, "RF"),
                   LR |-> lower_y_column(rear, cfg, "LR"),
                   RR |-> lower_y_column(rear, cfg, "RR")]
    IN  IF \/ ~(mapped_cols(cfg, "LF", LcaParts) \cup mapped_cols(cfg, "RF", LcaParts)
                   \subseteq columns(front))
           \/ ~(mapped_cols(cfg, "LR", LcaParts) \cup mapped_cols(cfg, "RR", LcaParts)
                   \subseteq columns(rear))
        THEN stored_nothing("KeyError")
        ELSE IF ~(mapped_cols(cfg, "LF", UpperParts) \cup mapped_cols(cfg, "RF", UpperParts)
                     \subseteq columns(front))
        THEN stored_nothing("KeyError")
        ELSE IF missing_cols(cfg, "LR", rear) # {}
        THEN [stored_nothing("ConfigurationError") EXCEPT
                 !.listed_missing_cols = listed(cfg, rear)]
        ELSE IF missing_cols(cfg, "RR", rear) # {}
        THEN [stored_nothing("ConfigurationError") EXCEPT
                 !.listed_missing_cols = listed(cfg, rear)]
        ELSE IF Len(merged) = 0
        THEN [result |-> "EmptyJoinError", df_front_calc |-> front_calc,
              df_rear_calc |-> rear_calc, results_df |-> results_df,
              lca_center_z |-> used_z, lower_mount_y |-> used_y,
              listed_missing_cols |-> {}]
        ELSE [result |-> "complete", df_front_calc |-> front_calc,
              df_rear_calc |-> rear_calc,
              results_df |-> ranked(with_clip_combination(merged)),
              lca_center_z |-> used_z, lower_mount_y |-> used_y,
              listed_missing_cols |-> {}]

\* the branch for one sheet, lines 600-670
recompute_single(cfg) ==
    LET sheet == df
        length(corner) == damper_length(sheet, cfg, corner,
                                        lca_center(sheet, cfg, corner, "Z"))
        calc == with_column(with_column(with_column(with_column(sheet,
                    "LF_Damper_Length", length("LF")),
                    "RF_Damper_Length", length("RF")),
                    "LR_Damper_Length", length("LR")),
                    "RR_Damper_Length", length("RR"))
    IN  IF ~(\A corner \in {"LF", "RF", "LR", "RR"} :
                mapped_cols(cfg, corner, Parts) \subseteq columns(sheet))
        THEN stored_nothing("KeyError")
        ELSE [result |-> "complete", df_front_calc |-> df_front_calc,
              df_rear_calc |-> df_rear_calc, results_df |-> ranked(calc),
              lca_center_z |-> [corner \in {"LF", "RF", "LR", "RR"} |->
                                   lca_center(sheet, cfg, corner, "Z")],
              lower_mount_y |-> [corner \in {"LF", "RF", "LR", "RR"} |->
                                    lower_y_column(sheet, cfg, corner)],
              listed_missing_cols |-> {}]

\* a length column of the sheets holds NaN
has_nan_length(front_calc, rear_calc) ==
    \/ \E i \in 1..Len(front_calc) :
          front_calc[i].LF_Damper_Length = NaN \/ front_calc[i].RF_Damper_Length = NaN
    \/ \E j \in 1..Len(rear_calc) :
          rear_calc[j].LR_Damper_Length = NaN \/ rear_calc[j].RR_Damper_Length = NaN

\* a length column of the two stored sheets holds NaN: .rank(...).astype(int)
\* raises when the rank tables are built
rank_tables_raise == has_nan_length(df_front_calc, df_rear_calc)

\* the script run reaches the lineup builder of the selector tab
selector_tab_runs ==
    /\ results_df # NOT_SET
    /\ using_multi_sheet
    /\ df_front_calc # NOT_SET
    /\ ~rank_tables_raise

\* the table of the selector can be built: lineup_assignments[center] exists
\* for every center section
lineup_tables_render ==
    SeqRange(all_center_sections) \subseteq DOMAIN lineup_assignments

\* the geometry columns of a sheet left out
key_columns(sheet) ==
    [i \in 1..Len(sheet) |-> [Center_Section |-> sheet[i].Center_Section,
                              Clip |-> sheet[i].Clip]]

\* state after a recompute of two sheets, before the selector tab has run; the
\* rank tables, which every script run derives anew from df_front_calc and
\* df_rear_calc, are kept next to them; the geometry columns of the sheets,
\* which no step of the selector reads, are left out
Init ==
    /\ \E n \in 2..MaxCenters, seed \in 0..MaxSeed :
       \E absent_front \in SUBSET FrontKeys(n), absent_rear \in SUBSET RearKeys(n) :
          /\ Cardinality(absent_front) + Cardinality(absent_rear) <= MaxAbsent
          /\ df_front_calc = FrontSheet(FrontKeys(n) \ absent_front, seed)
          /\ df_rear_calc = RearSheet(RearKeys(n) \ absent_rear, seed)
    /\ df_front_calc_ranks = front_ranks(df_front_calc)
    /\ df_rear_calc_ranks = rear_ranks(df_rear_calc)
    /\ corner_weights = NOT_SET
    /\ center_best_combos = <<>>
    /\ lineup_assignments = NOT_SET
    /\ manual_order_mode = FALSE
    /\ last_calculate_time = 0
    /\ total_weight = 0
    /\ calculate_button = FALSE
    /\ changes_made = FALSE
    /\ override_since_run = FALSE
    /\ using_multi_sheet = TRUE
    /\ df_front = key_columns(df_front_calc)
    /\ df_rear = key_columns(df_rear_calc)
    /\ df = df_front
    /\ config = config_input(TRUE, TRUE)
    /\ results_df = ranked(with_clip_combination(merge(df_front_calc, df_rear_calc)))
    /\ recompute_result = "complete"
    /\ recomputes_of_upload = <<TRUE>>
    /\ lca_center_z = NOT_SET
    /\ lower_mount_y = NOT_SET
    /\ listed_missing_cols = {}
    /\ upload_count = 1

\* first script run of the selector tab: the keys missing from the session
\* state are initialised, lineup_assignments by a run of the optimizer with
\* the default weights
SelectorFirstRun ==
    /\ selector_tab_runs
    /\ lineup_assignments = NOT_SET
    /\ corner_weights' = DefaultWeights
    /\ center_best_combos' = run_combos(DefaultWeights)
    /\ lineup_assignments' = calculate_optimal_assignments(DefaultWeights)
    /\ manual_order_mode' = FALSE
    /\ last_calculate_time' = 0
    /\ total_weight' = Total(DefaultWeights)
    /\ calculate_button' = FALSE
    /\ changes_made' = FALSE
    /\ override_since_run' = FALSE
    /\ UNCHANGED <<df_front_calc, df_rear_calc, df_front_calc_ranks, df_rear_calc_ranks>>
    /\ UNCHANGED pipeline_vars

\* ---- the Calculate button and its weight-sum gate ----
\* variant of the gate with a tolerance of 1 %
gate_refuses_within_percent(total) == Abs(total - HUNDRED) > 1000

\* abs(total_weight - 100.0) > 0.01
gate_refuses(total) == Abs(total - HUNDRED) > TOLERANCE

\* Calculate pressed with the four weight inputs w: store the weights, run the
\* optimizer, st.rerun() (which ends the script run before the reset of
\* manual_order_mode that follows the button)
Calculate(w) ==
    /\ selector_tab_runs
    /\ lineup_assignments # NOT_SET
    /\ ~gate_refuses(Total(w))
    /\ corner_weights' = w
    /\ center_best_combos' = run_combos(w)
    /\ lineup_assignments' = calculate_optimal_assignments(w)
    /\ total_weight' = Total(w)
    /\ calculate_button' = TRUE
    /\ changes_made' = FALSE
    /\ override_since_run' = FALSE
    /\ UNCHANGED <<df_front_calc, df_rear_calc, df_front_calc_ranks, df_rear_calc_ranks,
                   manual_order_mode, last_calculate_time>>
    /\ UNCHANGED pipeline_vars

\* weight inputs w whose total fails the gate: the button is rendered disabled
CalculateDisabled(w) ==
    /\ selector_tab_runs
    /\ lineup_assignments # NOT_SET
    /\ gate_refuses(Total(w))
    /\ total_weight' = Total(w)
    /\ calculate_button' = FALSE
    /\ changes_made' = FALSE
    /\ UNCHANGED <<df_front_calc, df_rear_calc, df_front_calc_ranks, df_rear_calc_ranks,
                   corner_weights, lineup_assignments,
                   manual_order_mode, last_calculate_time, center_best_combos,
                   override_since_run>>
    /\ UNCHANGED pipeline_vars

\* ---- manual overrides in the two tables ----
\* the Front_Clip column st.data_editor returns after the user sets one cell
edited_front(center, new_front_clip) ==
    [c \in SeqRange(table_centers) |->
        IF c = center THEN new_front_clip ELSE lineup_assignments[c].front_clip]
edited_rear(center, new_rear_clip) ==
    [c \in SeqRange(table_centers) |->
        IF c = center THEN new_rear_clip ELSE lineup_assignments[c].rear_clip]

\* variant of the front loop that hands the replaced clip to the section
\* that held the new one, so that no duplicate arises
front_edit_loop_swapping(edited) ==
    [c \in DOMAIN lineup_assignments |->
        IF c \in DOMAIN edited /\ lineup_assignments[c].front_clip # edited[c]
        THEN [lineup_assignments[c] EXCEPT !.front_clip = edited[c]]
        ELSE IF \E d \in DOMAIN edited :
                   /\ lineup_assignments[d].front_clip # edited[d]
                   /\ edited[d] = lineup_assignments[c].front_clip
             THEN LET d == CHOOSE d \in DOMAIN edited :
                               /\ lineup_assignments[d].front_clip # edited[d]
                               /\ edited[d] = lineup_assignments[c].front_clip
                  IN  [lineup_assignments[c] EXCEPT
                          !.front_clip = lineup_assignments[d].front_clip]
             ELSE lineup_assignments[c]]

\* "for idx, row in edited_front.iterrows()": the assignments after the loop
front_edit_loop(edited) ==
    [c \in DOMAIN lineup_assignments |->
        IF c \in DOMAIN edited /\ lineup_assignments[c].front_clip # edited[c]
        THEN [lineup_assignments[c] EXCEPT !.front_clip = edited[c]]
        ELSE lineup_assignments[c]]
rear_edit_loop(edited) ==
    [c \in DOMAIN lineup_assignments |->
        IF c \in DOMAIN edited /\ lineup_assignments[c].rear_clip # edited[c]
        THEN [lineup_assignments[c] EXCEPT !.rear_clip = edited[c]]
        ELSE lineup_assignments[c]]

\* variant of the override that leaves the flag as it is
mode_after_override_unset == manual_order_mode

\* st.session_state['manual_order_mode'] = True
mode_after_override == TRUE

FrontTableEdit(center, new_front_clip) ==
    /\ selector_tab_runs
    /\ lineup_assignments # NOT_SET
    /\ lineup_tables_render
    /\ center \in SeqRange(table_centers)
    /\ new_front_clip \in SeqRange(all_front_clips)
    /\ lineup_assignments[center].front_clip # new_front_clip
    /\ lineup_assignments' = front_edit_loop(edited_front(center, new_front_clip))
    /\ manual_order_mode' = mode_after_override
    /\ changes_made' = TRUE
    /\ calculate_button' = FALSE
    /\ override_since_run' = TRUE
    /\ UNCHANGED <<df_front_calc, df_rear_calc, df_front_calc_ranks, df_rear_calc_ranks,
                   corner_weights, last_calculate_time,
                   center_best_combos, total_weight>>
    /\ UNCHANGED pipeline_vars

RearTableEdit(center, new_rear_clip) ==
    /\ selector_tab_runs
    /\ lineup_assignments # NOT_SET
    /\ lineup_tables_render
    /\ center \in SeqRange(table_centers)
    /\ new_rear_clip \in SeqRange(all_rear_clips)
    /\ lineup_assignments[center].rear_clip # new_rear_clip
    /\ lineup_assignments' = rear_edit_loop(edited_rear(center, new_rear_clip))
    /\ manual_order_mode' = mode_after_override
    /\ changes_made' = TRUE
    /\ calculate_button' = FALSE
    /\ override_since_run' = TRUE
    /\ UNCHANGED <<df_front_calc, df_rear_calc, df_front_calc_ranks, df_rear_calc_ranks,
                   corner_weights, last_calculate_time,
                   center_best_combos, total_weight>>
    /\ UNCHANGED pipeline_vars

Next ==
    \/ SelectorFirstRun
    \/ \E w \in WeightInputs : Calculate(w)
    \/ \E w \in WeightInputs : CalculateDisabled(w)
    \/ \E center \in 1..MaxCenters, clip \in 1..NumFrontClips : FrontTableEdit(center, clip)
    \/ \E center \in 1..MaxCenters, clip \in 1..NumRearClips : RearTableEdit(center, clip)

Spec == Init /\ [][Next]_vars

\* ---- the upload and the recompute as steps of a session ----
\* the session at launch: no file uploaded, no key in st.session_state
PipelineInit ==
    /\ using_multi_sheet = FALSE
    /\ df = NOT_SET
    /\ df_front = NOT_SET
    /\ df_rear = NOT_SET
    /\ config = NOT_SET
    /\ results_df = NOT_SET
    /\ df_front_calc = NOT_SET
    /\ df_rear_calc = NOT_SET
    /\ df_front_calc_ranks = <<>>
    /\ df_rear_calc_ranks = <<>>
    /\ recompute_result = "none"
    /\ recomputes_of_upload = <<>>
    /\ lca_center_z = NOT_SET
    /\ lower_mount_y = NOT_SET
    /\ listed_missing_cols = {}
    /\ upload_count = 0
    /\ corner_weights = NOT_SET
    /\ center_best_combos = <<>>
    /\ lineup_assignments = NOT_SET
    /\ manual_order_mode = FALSE
    /\ last_calculate_time = 0
    /\ total_weight = 0
    /\ calculate_button = FALSE
    /\ changes_made = FALSE
    /\ override_since_run = FALSE

\* the script run has reached the selector tab with its keys missing: the run
\* goes on as SelectorFirstRun before the user can act again
first_run_pending == selector_tab_runs /\ lineup_assignments = NOT_SET

\* what a script run that presses no button of the selector tab leaves of the
\* selector's keys and locals
NoSelectorButton ==
    /\ calculate_button' = FALSE
    /\ changes_made' = FALSE
    /\ UNCHANGED <<corner_weights, center_best_combos, lineup_assignments,
                   manual_order_mode, last_calculate_time, total_weight,
                   override_since_run>>

\* variant of the copy that hands the session's own frame to the handler, so
\* that the length columns are written into st.session_state['df_front']
df_front_not_copied(front_calc) == front_calc

\* st.session_state['df_front'] after the handler has worked on
\* st.session_state['df_front'].copy() and produced front_calc
df_front_after(front_calc) == df_front

\* a file is chosen in the uploader: an Excel file with one sheet or with a
\* front and a rear sheet selected
Upload(file) ==
    /\ ~first_run_pending
    /\ upload_count < MaxUploads
    /\ upload_count' = upload_count + 1
    /\ file.front # df \/ file.multi # using_multi_sheet
       \/ (file.multi /\ file.rear # df_rear)
    /\ using_multi_sheet' = file.multi
    /\ df' = file.front
    /\ df_front' = IF file.multi THEN file.front ELSE df_front
    /\ df_rear' = IF file.multi THEN file.rear ELSE df_rear
    /\ recomputes_of_upload' = <<>>
    /\ UNCHANGED <<config, results_df, recompute_result, lca_center_z, lower_mount_y,
                   listed_missing_cols,
                   df_front_calc, df_rear_calc, df_front_calc_ranks, df_rear_calc_ranks>>
    /\ NoSelectorButton

\* "Calculate Damper Lengths & Travel" pressed with the checkbox set to
\* normalize_lca_z: the configuration is stored, then the handler runs
Recompute(normalize_lca_z) ==
    /\ ~first_run_pending
    /\ df # NOT_SET
    /\ config' = config_input(using_multi_sheet, normalize_lca_z)
    /\ UNCHANGED <<using_multi_sheet, df, df_rear, upload_count>>
    /\ NoSelectorButton
    /\ \E out \in {IF using_multi_sheet THEN recompute_multi(config_input(using_multi_sheet,
                                                                          normalize_lca_z))
                    ELSE recompute_single(config_input(using_multi_sheet, normalize_lca_z))} :
           /\ df_front_calc' = out.df_front_calc
           /\ df_rear_calc' = out.df_rear_calc
           /\ results_df' = out.results_df
           /\ lca_center_z' = out.lca_center_z
           /\ lower_mount_y' = out.lower_mount_y
           /\ listed_missing_cols' = out.listed_missing_cols
           /\ recompute_result' = out.result
           /\ recomputes_of_upload' =
                  IF out.result # "complete" THEN recomputes_of_upload
                  ELSE IF recomputes_of_upload = <<>> THEN <<normalize_lca_z>>
                  ELSE <<recomputes_of_upload[Len(recomputes_of_upload)], normalize_lca_z>>
           /\ df_front' = IF using_multi_sheet /\ out.result \in {"complete", "EmptyJoinError"}
                          THEN df_front_after(out.df_front_calc) ELSE df_front
           /\ df_front_calc_ranks' =
                  IF has_nan_length(out.df_front_calc, out.df_rear_calc) THEN <<>>
                  ELSE front_ranks(out.df_front_calc)
           /\ df_rear_calc_ranks' =
                  IF has_nan_length(out.df_front_calc, out.df_rear_calc) THEN <<>>
                  ELSE rear_ranks(out.df_rear_calc)

\* the weight inputs of the sessions with uploads
PipelineWeightInputs ==
    { [LF |-> 25000, RF |-> 25000, LR |-> 25000, RR |-> 25000],   \* 25 / 25 / 25 / 25
      [LF |-> 50000, RF |-> 0, LR |-> 0, RR |-> 0] }              \* total 50

PipelineNext ==
    \/ SelectorFirstRun
    \/ \E file \in Uploads : Upload(file)
    \/ \E normalize_lca_z \in BOOLEAN : Recompute(normalize_lca_z)
    \/ \E w \in PipelineWeightInputs : Calculate(w)
    \/ \E w \in PipelineWeightInputs : CalculateDisabled(w)
    \/ \E center \in 1..PipeCenters, clip \in 1..PipeClips : FrontTableEdit(center, clip)
    \/ \E center \in 1..PipeCenters, clip \in 1..PipeClips : RearTableEdit(center, clip)

PipelineSpec == PipelineInit /\ [][PipelineNext]_vars

\* ---- the 3D visualizer ----
\* np.sqrt(sum((p1[i] - p2[i])**2 for i in range(3))), squared, without x
calc_length(p1, p2) == Add(Sq(Sub(p1.y, p2.y)), Sq(Sub(p1.z, p2.z)))

\* coords['.._upper'] of one corner, taken from the selected row
visualizer_upper(row, cfg, corner) ==
    [y |-> row[mapped_col(cfg, corner, "Upper_Y")],
     z |-> row[mapped_col(cfg, corner, "Upper_Z")]]

\* (coords['.._lca_front'][i] + coords['.._lca_rear'][i]) / 2
visualizer_lca_center(row, cfg, corner) ==
    [y |-> Half(Add(row[mapped_col(cfg, corner, "LCA_Front_Y")],
                    row[mapped_col(cfg, corner, "LCA_Rear_Y")])),
     z |-> Half(Add(row[mapped_col(cfg, corner, "LCA_Front_Z")],
                    row[mapped_col(cfg, corner, "LCA_Rear_Z")]))]

\* lf_lower, rf_lower, lr_lower, rr_lower: center y - abs(offset) on the left,
\* + abs(offset) on the right, and the center z of the selected row
visualizer_lower(row, cfg, corner) ==
    LET center == visualizer_lca_center(row, cfg, corner)
    IN  [y |-> IF corner \in {"LF", "LR"} THEN Sub(center.y, Abs(cfg.y_offset[corner]))
               ELSE Add(center.y, Abs(cfg.y_offset[corner])),
         z |-> center.z]

\* the rows selected by mask_front and mask_rear (two sheets) or by mask (one
\* sheet, on results_df); {} when there is none ("No data found")
visualizer_front_rows(selected_center, selected_front_clip) ==
    IF using_multi_sheet
    THEN {i \in 1..Len(df_front) : /\ df_front[i].Center_Section = selected_center
                                   /\ df_front[i].Clip = selected_front_clip}
    ELSE {i \in 1..Len(results_df) : /\ results_df[i].Center_Section = selected_center
                                     /\ results_df[i].Clip = selected_front_clip}
visualizer_rear_rows(selected_center, selected_rear_clip) ==
    IF using_multi_sheet
    THEN {i \in 1..Len(df_rear) : /\ df_rear[i].Center_Section = selected_center
                                  /\ df_rear[i].Clip = selected_rear_clip}
    ELSE visualizer_front_rows(selected_center, selected_rear_clip)

\* the row .iloc[0] of the selection that holds the cells of a corner
visualizer_row(corner, selected_center, selected_front_clip, selected_rear_clip) ==
    IF ~using_multi_sheet
    THEN results_df[MinOf(visualizer_front_rows(selected_center, selected_front_clip))]
    ELSE IF corner \in {"LF", "RF"}
    THEN df_front[MinOf(visualizer_front_rows(selected_center, selected_front_clip))]
    ELSE df_rear[MinOf(visualizer_rear_rows(selected_center, selected_rear_clip))]

\* the lower mount and the damper length shown for one corner
visualizer_corner(corner, selected_center, selected_front_clip, selected_rear_clip) ==
    LET row == visualizer_row(corner, selected_center, selected_front_clip,
                              selected_rear_clip)
        lower == visualizer_lower(row, config, corner)
    IN  [lower |-> lower,
         length |-> calc_length(visualizer_upper(row, config, corner), lower)]

\* ---- properties ----
\* results_df was computed from the sheets now uploaded
results_from_upload == recomputes_of_upload # <<>>

Centers == SeqRange(all_center_sections)
Initialised == lineup_assignments # NOT_SET

\* the stored Assignment is the output of an optimizer run, not overridden since
FreshFromRun == Initialised /\ ~override_since_run

FrontUsers(clip) == {c \in DOMAIN lineup_assignments :
                        lineup_assignments[c].front_clip = clip}
RearUsers(clip) == {c \in DOMAIN lineup_assignments :
                       lineup_assignments[c].rear_clip = clip}
NoFrontReuse == \A clip \in SeqRange(all_front_clips) : Cardinality(FrontUsers(clip)) <= 1
NoRearReuse == \A clip \in SeqRange(all_rear_clips) : Cardinality(RearUsers(clip)) <= 1

\* clips committed by the sections processed before the n-th one of the last run
UsedFrontBefore(n) == {center_best_combos[j].front_clip : j \in 1..(n - 1)}
UsedRearBefore(n) == {center_best_combos[j].rear_clip : j \in 1..(n - 1)}

\* the last run fell back for a section when every front (rear) clip was used
FellBackAllFrontUsed ==
    \E n \in 1..Len(center_best_combos) :
        /\ center_best_combos[n].score = INF
        /\ SeqRange(all_front_clips) \subseteq UsedFrontBefore(n)
FellBackAllRearUsed ==
    \E n \in 1..Len(center_best_combos) :
        /\ center_best_combos[n].score = INF
        /\ SeqRange(all_rear_clips) \subseteq UsedRearBefore(n)

\* C1 as stated: after an optimizer run with no manual override, no front clip
\* and no rear clip is in more than one entry of the Assignment, for every
\* working set.
C1_NoReuseEveryWorkingSet == FreshFromRun => (NoFrontReuse /\ NoRearReuse)

\* C1 amended: after an optimizer run with no manual override, no front clip is
\* in more than one entry unless the run fell back for a section when every
\* front clip was already used, and likewise for the rear clips.
C1_NoReuseUnlessFallbackAllUsed ==
    FreshFromRun => /\ (~FellBackAllFrontUsed => NoFrontReuse)
                    /\ (~FellBackAllRearUsed => NoRearReuse)

C1_Witness ==
    /\ FreshFromRun /\ calculate_button
    /\ ~FellBackAllFrontUsed /\ ~FellBackAllRearUsed
    /\ \E n \in 1..Len(center_best_combos) : center_best_combos[n].score = INF

RunRequested(w) == Calculate(w) \/ CalculateDisabled(w)

Refused == /\ ~calculate_button'
           /\ UNCHANGED <<lineup_assignments, corner_weights, center_best_combos>>

\* C3 as stated: a run requested with weights that do not sum to 100 is
\* refused, the stored Assignment and weights staying as they were.
C3_RefusedUnlessExactly100 ==
    [][\A w \in WeightInputs :
         (Total(w) # HUNDRED /\ RunRequested(w)) => Refused]_vars

\* C3 amended: a run requested with weights whose total differs from 100 by
\* more than 0.01 (such as 99 or 101) is refused: the optimizer is not invoked
\* and the stored Assignment and weights stay as they were.
C3_RefusedBeyondTolerance ==
    [][\A w \in WeightInputs :
         ((Total(w) - HUNDRED > TOLERANCE \/ HUNDRED - Total(w) > TOLERANCE)
          /\ RunRequested(w)) => Refused]_vars

C3_Witness ==
    /\ Initialised /\ ~calculate_button /\ ~changes_made
    /\ total_weight \in {99000, 101000}
    /\ corner_weights # DefaultWeights

\* the pairs open to the n-th section of the last run
OpenPairs(n) ==
    LET cs == center_best_combos[n].center
    IN  {p \in SeqRange(all_front_clips) \X SeqRange(all_rear_clips) :
            /\ p[1] \notin UsedFrontBefore(n) /\ front_rows(cs, p[1]) # {}
            /\ p[2] \notin UsedRearBefore(n) /\ rear_rows(cs, p[2]) # {}}

\* C4: a run processes the center sections in ascending order and commits, for
\* every section with an open pair (both clips with a record at the section,
\* neither committed to an earlier section), an open pair of minimum weighted
\* score.
C4_GreedyMinimumInAscendingOrder ==
    Initialised =>
      /\ Len(center_best_combos) = Len(all_center_sections)
      /\ \A n \in 1..Len(center_best_combos) :
            /\ center_best_combos[n].center = all_center_sections[n]
            /\ \A m \in 1..(n - 1) :
                  center_best_combos[m].center < center_best_combos[n].center
            /\ OpenPairs(n) # {} =>
                 /\ <<center_best_combos[n].front_clip,
                      center_best_combos[n].rear_clip>> \in OpenPairs(n)
                 /\ \A p \in OpenPairs(n) :
                       combined_score(center_best_combos[n].center,
                                      center_best_combos[n].front_clip,
                                      center_best_combos[n].rear_clip, corner_weights)
                       <= combined_score(center_best_combos[n].center, p[1], p[2],
                                         corner_weights)
      /\ FreshFromRun => lineup_assignments = assignments_of(center_best_combos)

\* two sections score best with the same front clip: the earlier one has it,
\* the later one has another clip
C4_Witness ==
    /\ FreshFromRun
    /\ \E m, n \in 1..Len(center_best_combos) :
          /\ m < n
          /\ center_best_combos[n].score # INF
          /\ center_best_combos[n].front_clip # center_best_combos[m].front_clip
          /\ \E r \in SeqRange(all_rear_clips) :
                /\ front_rows(center_best_combos[n].center,
                              center_best_combos[m].front_clip) # {}
                /\ rear_rows(center_best_combos[n].center, r) # {}
                /\ combined_score(center_best_combos[n].center,
                                  center_best_combos[m].front_clip, r, corner_weights)
                   < center_best_combos[n].score

\* C5: every front (rear) clip assigned to more than one center section is in
\* the reported duplicated-in-front (duplicated-in-rear) set.
C5_EveryDuplicateReported ==
    Initialised =>
      /\ \A clip \in SeqRange(all_front_clips) :
            Cardinality(FrontUsers(clip)) > 1 => clip \in front_duplicates
      /\ \A clip \in SeqRange(all_rear_clips) :
            Cardinality(RearUsers(clip)) > 1 => clip \in rear_duplicates

Changed == {c \in DOMAIN lineup_assignments : lineup_assignments'[c] # lineup_assignments[c]}

\* C6: a manual override changes the front clip or the rear clip of exactly
\* one center section and nothing else of the Assignment.
C6_OverrideChangesOneClip ==
    [][changes_made' =>
         /\ DOMAIN lineup_assignments' = DOMAIN lineup_assignments
         /\ Cardinality(Changed) = 1
         /\ \A c \in Changed :
               \/ lineup_assignments'[c].rear_clip = lineup_assignments[c].rear_clip
               \/ lineup_assignments'[c].front_clip = lineup_assignments[c].front_clip]_vars

\* an override has just made a clip a duplicate
C6_Witness ==
    /\ changes_made
    /\ ~NoFrontReuse
    /\ assignments_of(center_best_combos) # lineup_assignments
    /\ \A clip \in SeqRange(all_front_clips) :
          Cardinality({n \in 1..Len(center_best_combos) :
                          center_best_combos[n].front_clip = clip}) <= 1

Ascending(seq) == \A i, j \in 1..Len(seq) : i < j => seq[i] < seq[j]

\* C7: from a manual override until the optimizer is re-run, the display
\* orders the center sections by ascending identifier.
C7_FrozenOrderAfterOverride ==
    override_since_run =>
      /\ Ascending(sorted_centers)
      /\ SeqRange(sorted_centers) = Centers
      /\ Len(sorted_centers) = Cardinality(Centers)

C7_Witness ==
    /\ override_since_run
    /\ ~changes_made
    /\ ~Ascending(sorted_by_score)

\* C8: the first display after an explicit re-run is in default mode, ordered
\* by weighted score.
C8_RerunEndsFreeze ==
    calculate_button => (~manual_order_mode /\ sorted_centers = sorted_by_score)

\* C9: in default mode the sections are displayed by ascending weighted score
\* of their assigned pair under the stored weights.
C9_DefaultOrderByScore ==
    (Initialised /\ ~manual_order_mode) =>
      /\ SeqRange(sorted_centers) = Centers
      /\ Len(sorted_centers) = Cardinality(Centers)
      /\ \A i, j \in 1..Len(sorted_centers) :
            i < j => ~ScoreLess(center_score(sorted_centers[j]),
                                center_score(sorted_centers[i]))

C9_Witness ==
    /\ Initialised /\ ~manual_order_mode
    /\ ~Ascending(sorted_centers)
    /\ \E i, j \in 1..Len(sorted_centers) :
          ScoreLess(center_score(sorted_centers[i]), center_score(sorted_centers[j]))

\* C10: a run does not depend on the Assignment stored before it: run again
\* with the weights of the previous run, from an Assignment changed by manual
\* overrides, it stores what the previous run stored.
C10_RunIgnoresPriorAssignment ==
    [][(calculate_button' /\ Initialised /\ corner_weights' = corner_weights)
        => (lineup_assignments' = assignments_of(center_best_combos)
            /\ center_best_combos' = center_best_combos)]_vars

C10_Witness ==
    /\ calculate_button /\ manual_order_mode
    /\ corner_weights # DefaultWeights
    /\ lineup_assignments = assignments_of(center_best_combos)

\* the last run fell back for its n-th section
FellBack(n) == center_best_combos[n].score = INF

\* the clip the fallback rule names: the lowest clip not yet used, the lowest
\* clip of all when every clip is used
FirstUnused(clips, used) ==
    IF SeqRange(clips) \subseteq used THEN MinOf(SeqRange(clips))
    ELSE MinOf(SeqRange(clips) \ used)

\* C11: a section without an open pair gets the first front clip not yet used
\* (the globally first one when all are used) and, independently, the rear
\* clip by the same rule; both count as used for the sections processed later.
C11_FallbackFirstUnusedMarkedUsed ==
    Initialised =>
      \A n \in 1..Len(center_best_combos) :
         /\ FellBack(n) <=> OpenPairs(n) = {}
         /\ FellBack(n) =>
              /\ center_best_combos[n].front_clip
                    = FirstUnused(all_front_clips, UsedFrontBefore(n))
              /\ center_best_combos[n].rear_clip
                    = FirstUnused(all_rear_clips, UsedRearBefore(n))
              /\ \A m \in (n + 1)..Len(center_best_combos) :
                    /\ ~FellBack(m) =>
                          /\ center_best_combos[m].front_clip
                                # center_best_combos[n].front_clip
                          /\ center_best_combos[m].rear_clip
                                # center_best_combos[n].rear_clip
                    /\ (FellBack(m) /\ ~(SeqRange(all_front_clips) \subseteq UsedFrontBefore(m)))
                          => center_best_combos[m].front_clip
                                # center_best_combos[n].front_clip
                    /\ (FellBack(m) /\ ~(SeqRange(all_rear_clips) \subseteq UsedRearBefore(m)))
                          => center_best_combos[m].rear_clip
                                # center_best_combos[n].rear_clip

\* one section fell back to a clip that is not the globally first one, a later
\* one fell back when every front clip was used
C11_Witness ==
    /\ FreshFromRun
    /\ \E n, m \in 1..Len(center_best_combos) :
          /\ n < m /\ FellBack(n) /\ FellBack(m)
          /\ center_best_combos[n].front_clip # all_front_clips[1]
          /\ SeqRange(all_front_clips) \subseteq UsedFrontBefore(m)
          /\ center_best_combos[m].front_clip = all_front_clips[1]

\* position of a center section in the displayed order
DisplayPos(center) == CHOOSE i \in 1..Len(sorted_centers) : sorted_centers[i] = center

\* C12: in the score-based display order every entry the optimizer produced
\* by fallback comes after every entry it committed as a best pair.
C12_FallbackEntriesDisplayedLast ==
    (FreshFromRun /\ ~manual_order_mode) =>
      \A n, m \in 1..Len(center_best_combos) :
         (FellBack(n) /\ ~FellBack(m))
            => DisplayPos(center_best_combos[m].center)
                  < DisplayPos(center_best_combos[n].center)

\* the open pairs of minimum weighted score for the n-th section of the last run
MinScorePairs(n) ==
    {p \in OpenPairs(n) : \A q \in OpenPairs(n) :
        combined_score(center_best_combos[n].center, p[1], p[2], corner_weights)
        <= combined_score(center_best_combos[n].center, q[1], q[2], corner_weights)}

\* C13: among the open pairs of equal minimum score the committed one is the
\* first of the nested iteration: lowest front clip, then lowest rear clip.
C13_FirstSeenWinsTies ==
    Initialised =>
      \A n \in 1..Len(center_best_combos) :
         OpenPairs(n) # {} =>
            /\ <<center_best_combos[n].front_clip,
                 center_best_combos[n].rear_clip>> \in MinScorePairs(n)
            /\ \A q \in MinScorePairs(n) :
                  \/ center_best_combos[n].front_clip < q[1]
                  \/ /\ center_best_combos[n].front_clip = q[1]
                     /\ center_best_combos[n].rear_clip <= q[2]

\* two open pairs with different front and rear clips tie at the minimum
C13_Witness ==
    /\ FreshFromRun
    /\ \E n \in 1..Len(center_best_combos) :
          \E p, q \in MinScorePairs(n) : p[1] < q[1] /\ p[2] > q[2]

\* C14: whenever the selector tab is shown with a stored Assignment, after any
\* sequence of uploads, recomputes, optimizer runs and overrides, the
\* Assignment has exactly one entry for every center section of the current
\* working set and none for any other
C14_AssignmentCoversCurrentWorkingSet ==
    (Initialised /\ selector_tab_runs) => DOMAIN lineup_assignments = Centers

\* a step that presses "Calculate Damper Lengths & Travel"
RecomputeStep == \E normalize_lca_z \in BOOLEAN : Recompute(normalize_lca_z)

\* C15: a recompute that is requested when results exist and aborts with a
\* ConfigurationError or an EmptyJoinError leaves the ranked working set, the
\* two per-sheet computed tables and the stored configuration as they were
C15_AbortLeavesStoredResultsIntact ==
    [][(/\ RecomputeStep
        /\ results_df # NOT_SET
        /\ recompute_result' \in {"ConfigurationError", "EmptyJoinError"})
       => UNCHANGED <<results_df, df_front_calc, df_rear_calc, config>>]_vars

\* C16: once a recompute of the uploaded sheets has completed, no record with
\* a NaN damper length is in the ranked working set, and in dual-sheet mode
\* none is in the two per-sheet tables the rank tables are built from, so that
\* building them does not fail
C16_NaNRecordsExcludedEverywhere ==
    results_from_upload =>
        /\ \A i \in 1..Len(results_df) : \A c \in LengthColumns : results_df[i][c] # NaN
        /\ using_multi_sheet => ~rank_tables_raise

\* the median of the lca_center z values of the four corners over all records
\* of the uploaded sheets
dataset_median_z ==
    IF using_multi_sheet THEN median_z(df_front, df_rear, config)
    ELSE median_z(df, df, config)

\* C17: after a completed recompute with normalize_lca_z enabled, in single-
\* sheet and in dual-sheet mode, the lca_center z used for the lower mount of
\* every corner of every record is the median of the lca_center z values of
\* all four corners over the whole uploaded data
C17_NormalizedZIsMedianInBothModes ==
    (results_from_upload /\ config.normalize_lca_z) =>
        \A corner \in DOMAIN lca_center_z : \A i \in 1..Len(lca_center_z[corner]) :
            lca_center_z[corner][i] = dataset_median_z

DualResultsCurrent ==
    /\ using_multi_sheet
    /\ results_from_upload
    /\ recompute_result = "complete"
    /\ ~rank_tables_raise

rows_at(frame, c) == {i \in 1..Len(frame) : frame[i].Center_Section = c}

\* C19: in dual-sheet mode the working set holds exactly the pairs of a front
\* record and a rear record with the same center section: for every center
\* section c it has |front records at c| x |rear records at c| rows, none for
\* a center section of one sheet only, and every row joins a front record and
\* a rear record of its center section
C19_InnerJoinOnCenterSection ==
    DualResultsCurrent =>
        /\ \A c \in {df_front_calc[i].Center_Section : i \in 1..Len(df_front_calc)}
                   \cup {df_rear_calc[j].Center_Section : j \in 1..Len(df_rear_calc)}
                   \cup {results_df[k].Center_Section : k \in 1..Len(results_df)} :
              Cardinality(rows_at(results_df, c))
                 = Cardinality(rows_at(df_front_calc, c)) * Cardinality(rows_at(df_rear_calc, c))
        /\ \A i \in 1..Len(df_front_calc), j \in 1..Len(df_rear_calc) :
              df_front_calc[i].Center_Section = df_rear_calc[j].Center_Section
              => \E k \in 1..Len(results_df) :
                    /\ results_df[k].Center_Section = df_front_calc[i].Center_Section
                    /\ results_df[k].Front_Clip = df_front_calc[i].Clip
                    /\ results_df[k].Rear_Clip = df_rear_calc[j].Clip
                    /\ results_df[k].LF_Damper_Length = df_front_calc[i].LF_Damper_Length
                    /\ results_df[k].RF_Damper_Length = df_front_calc[i].RF_Damper_Length
                    /\ results_df[k].LR_Damper_Length = df_rear_calc[j].LR_Damper_Length
                    /\ results_df[k].RR_Damper_Length = df_rear_calc[j].RR_Damper_Length

\* a working set joined from a front sheet and a rear sheet that share one
\* center section and have one center section each that the other lacks
C19_Witness ==
    /\ DualResultsCurrent
    /\ \E i \in 1..Len(df_front_calc) : rows_at(df_rear_calc, df_front_calc[i].Center_Section) = {}
    /\ \E j \in 1..Len(df_rear_calc) : rows_at(df_front_calc, df_rear_calc[j].Center_Section) = {}
    /\ \E k \in 1..Len(results_df) :
          Cardinality(rows_at(results_df, results_df[k].Center_Section)) = PipeClips * PipeClips

Corners == {"LF", "RF", "LR", "RR"}
length_of(row, corner) == row[corner \o "_Damper_Length"]
rank_of(row, corner) == row[corner \o "_Rank"]

\* C20: in the ranked working set, at every corner, a record with a greater
\* length has a lower rank, records of equal length have equal ranks, and the
\* rank of a record is 1 + the number of records with a strictly greater
\* length
C20_DescendingMinRanks ==
    \A corner \in Corners : \A a \in 1..Len(results_df) :
        /\ \A b \in 1..Len(results_df) :
              /\ length_of(results_df[a], corner) > length_of(results_df[b], corner)
                 => rank_of(results_df[a], corner) < rank_of(results_df[b], corner)
              /\ length_of(results_df[a], corner) = length_of(results_df[b], corner)
                 => rank_of(results_df[a], corner) = rank_of(results_df[b], corner)
        /\ rank_of(results_df[a], corner)
              = 1 + Cardinality({b \in 1..Len(results_df) :
                        length_of(results_df[b], corner) > length_of(results_df[a], corner)})

\* a working set computed from two uploaded sheets in which, at one corner,
\* two different records have the same length and two have different lengths
C20_Witness ==
    /\ results_from_upload
    /\ using_multi_sheet
    /\ \E a, b \in 1..Len(results_df) :
          /\ a # b
          /\ results_df[a].LR_Damper_Length = results_df[b].LR_Damper_Length
          /\ results_df[a].Clip_Combination[2] # results_df[b].Clip_Combination[2]
    /\ \E a, b \in 1..Len(results_df) :
          results_df[a].LR_Damper_Length > results_df[b].LR_Damper_Length

\* C21: in the ranked working set Front_Weighted_Score is 2 * LF_Rank +
\* RF_Rank, a record with a lower score has a lower Front_Rank, and records
\* of equal score have equal Front_Rank
C21_FrontRankMonotoneInScore ==
    \A a \in 1..Len(results_df) :
        /\ results_df[a].Front_Weighted_Score
              = (2 * results_df[a].LF_Rank) + results_df[a].RF_Rank
        /\ \A b \in 1..Len(results_df) :
              /\ results_df[a].Front_Weighted_Score < results_df[b].Front_Weighted_Score
                 => results_df[a].Front_Rank < results_df[b].Front_Rank
              /\ results_df[a].Front_Weighted_Score = results_df[b].Front_Weighted_Score
                 => results_df[a].Front_Rank = results_df[b].Front_Rank

\* a working set computed from uploaded sheets in which two records with
\* different front clips have the same score and two have different scores
C21_Witness ==
    /\ results_from_upload
    /\ using_multi_sheet
    /\ \E a, b \in 1..Len(results_df) :
          /\ results_df[a].Front_Weighted_Score = results_df[b].Front_Weighted_Score
          /\ <<results_df[a].Center_Section, results_df[a].Front_Clip>>
                # <<results_df[b].Center_Section, results_df[b].Front_Clip>>
    /\ \E a, b \in 1..Len(results_df) :
          results_df[a].Front_Weighted_Score < results_df[b].Front_Weighted_Score

\* the uploaded sheet that holds the columns of a corner
sheet_of(corner) ==
    IF ~using_multi_sheet THEN df
    ELSE IF corner \in {"LF", "RF"} THEN df_front ELSE df_rear

\* a configuration whose four offsets are the number offset
config_with_offset(offset) ==
    [config_input(TRUE, TRUE) EXCEPT !.y_offset = [corner \in Corners |-> offset]]

\* C22: the lower mount y of a left corner (LF, LR) is the lca center y minus
\* the magnitude of the offset and that of a right corner (RF, RR) the lca
\* center y plus the magnitude: in every recompute, for every record, and
\* for every offset of either sign; for a non-zero offset the left lower
\* mount is strictly less and the right strictly greater than the center y
C22_OffsetMagnitudeLeftMinusRightPlus ==
    /\ results_from_upload =>
          \A corner \in Corners : \A i \in 1..Len(lower_mount_y[corner]) :
              LET center_y == lca_center(sheet_of(corner), config, corner, "Y")[i]
                  offset == config.y_offset[corner]
              IN  /\ lower_mount_y[corner][i]
                        = IF corner \in {"LF", "LR"} THEN center_y - Abs(offset)
                          ELSE center_y + Abs(offset)
                  /\ offset # 0 =>
                        IF corner \in {"LF", "LR"} THEN lower_mount_y[corner][i] < center_y
                        ELSE lower_mount_y[corner][i] > center_y
    /\ \A offset \in (0 - MaxOffset)..MaxOffset, center_y \in 0..MaxOffset :
          /\ \A corner \in {"LF", "LR"} :
                /\ lower_y(center_y, corner, config_with_offset(offset))
                      = center_y - Abs(offset)
                /\ offset # 0 =>
                      lower_y(center_y, corner, config_with_offset(offset)) < center_y
          /\ \A corner \in {"RF", "RR"} :
                /\ lower_y(center_y, corner, config_with_offset(offset))
                      = center_y + Abs(offset)
                /\ offset # 0 =>
                      lower_y(center_y, corner, config_with_offset(offset)) > center_y

\* a completed recompute of two sheets with non-zero offsets, whose lower
\* mounts lie on either side of the lca center y
C22_Witness ==
    /\ results_from_upload
    /\ using_multi_sheet
    /\ \A corner \in Corners : config.y_offset[corner] # 0
    /\ \E i \in 1..Len(lower_mount_y.LR) :
          lower_mount_y.LR[i] < lca_center(df_rear, config, "LR", "Y")[i]
    /\ \E i \in 1..Len(lower_mount_y.RF) :
          lower_mount_y.RF[i] > lca_center(df_front, config, "RF", "Y")[i]

\* C23: a recompute that ends in the ConfigurationError lists every mapped
\* column of LR and of RR that the rear sheet lacks
C23_ConfigurationErrorListsAllMissing ==
    [][(RecomputeStep /\ recompute_result' = "ConfigurationError")
       => listed_missing_cols'
            = {<<"LR", col>> : col \in missing_cols(config', "LR", df_rear)}
              \cup {<<"RR", col>> : col \in missing_cols(config', "RR", df_rear)}]_vars

\* C24: every record of the ranked working set, in single-sheet and in
\* dual-sheet mode, carries Rear_Weighted_Score = 2 * LR_Rank + RR_Rank and
\* the integer Rear_Rank that min-ranks these scores ascending
C24_RearRankInWorkingSet ==
    \A a \in 1..Len(results_df) :
        /\ {"Rear_Weighted_Score", "Rear_Rank"} \subseteq DOMAIN results_df[a]
        /\ results_df[a].Rear_Weighted_Score
              = (2 * results_df[a].LR_Rank) + results_df[a].RR_Rank
        /\ results_df[a].Rear_Rank
              = 1 + Cardinality({b \in 1..Len(results_df) :
                        results_df[b].Rear_Weighted_Score < results_df[a].Rear_Weighted_Score})

\* C25: in dual-sheet mode, for every combination of the ranked working set,
\* the LF, RF, LR and RR ranks the optimizer looks up for its (center
\* section, front clip) and (center section, rear clip) are the LF, RF, LR
\* and RR ranks of that combination in the ranked working set
C25_OptimizerRanksAreWorkingSetRanks ==
    (Initialised /\ selector_tab_runs /\ results_from_upload) =>
        \A k \in 1..Len(results_df) :
            LET cs == results_df[k].Center_Section
                fi == MinOf(front_rows(cs, results_df[k].Front_Clip))
                ri == MinOf(rear_rows(cs, results_df[k].Rear_Clip))
            IN  /\ df_front_calc_ranks[fi].LF_Rank = results_df[k].LF_Rank
                /\ df_front_calc_ranks[fi].RF_Rank = results_df[k].RF_Rank
                /\ df_rear_calc_ranks[ri].LR_Rank = results_df[k].LR_Rank
                /\ df_rear_calc_ranks[ri].RR_Rank = results_df[k].RR_Rank

\* C26: within one optimizer run, an entry committed as a best pair shares
\* neither its front clip nor its rear clip with an earlier entry of the run,
\* and whenever two entries of the run have the same front (rear) clip, the
\* later one was produced by the fallback branch when every front (rear) clip
\* was already used.
C26_ReuseOnlyByFallbackWhenAllUsed ==
    Initialised =>
      \A m \in 1..Len(center_best_combos) :
         /\ ~FellBack(m) =>
               /\ center_best_combos[m].front_clip \notin UsedFrontBefore(m)
               /\ center_best_combos[m].rear_clip \notin UsedRearBefore(m)
         /\ center_best_combos[m].front_clip \in UsedFrontBefore(m) =>
               /\ FellBack(m)
               /\ SeqRange(all_front_clips) \subseteq UsedFrontBefore(m)
         /\ center_best_combos[m].rear_clip \in UsedRearBefore(m) =>
               /\ FellBack(m)
               /\ SeqRange(all_rear_clips) \subseteq UsedRearBefore(m)

\* a run in which a best pair was committed after an earlier entry and a later
\* section fell back to a front clip and a rear clip already in the Assignment
C26_Witness ==
    /\ FreshFromRun /\ calculate_button
    /\ \E n, m \in 1..Len(center_best_combos) :
          /\ 1 < n /\ n < m /\ ~FellBack(n) /\ FellBack(m)
          /\ center_best_combos[m].front_clip \in UsedFrontBefore(m)
          /\ center_best_combos[m].rear_clip \in UsedRearBefore(m)
          /\ Cardinality(FrontUsers(center_best_combos[m].front_clip)) > 1

\* C27: in every state reached through optimizer runs and manual overrides,
\* the assigned front clip and rear clip of each center section both have a
\* record at that section, so every section is a row of the lineup tables
\* and the what-if lookup of the current pair does not fail.
C27_AssignedClipsHaveRecords ==
    (Initialised /\ selector_tab_runs /\ lineup_tables_render) =>
        \A center \in Centers :
            /\ assigned_rows_exist(center)
            /\ center \in SeqRange(table_centers)
            /\ whatif_current_pair(center).raised # "IndexError"

\* the stored weights total 100 up to tol and are those of the last run
StoredWeightsOfLastRun(tol) ==
    Initialised =>
        /\ Abs(Total(corner_weights) - HUNDRED) <= tol
        /\ center_best_combos = run_combos(corner_weights)

\* the stored weights change only in a script run that ran the optimizer with
\* them, and weight inputs that fail the gate change neither the stored
\* weights nor the scores the score-based ordering sorts by
WeightsChangeOnlyWithRun ==
    /\ corner_weights' # corner_weights =>
          /\ lineup_assignments' = assignments_of(center_best_combos')
          /\ ~override_since_run'
          /\ total_weight' = Total(corner_weights')
    /\ \A w \in WeightInputs :
          CalculateDisabled(w) =>
              /\ corner_weights' = corner_weights
              /\ w # corner_weights
              /\ \A c \in Centers : center_score(c)' = center_score(c)

\* C28 as stated: the stored weights change only together with a successful
\* optimizer run, in every state they sum to 100 and are the weights the
\* last run used, and weight inputs that were not accepted never reach the
\* stored weights or the score-based ordering.
C28_StoredWeightsSumTo100 ==
    []StoredWeightsOfLastRun(0) /\ [][WeightsChangeOnlyWithRun]_vars

\* C28 amended: as stated, except that the stored weights sum to 100 within
\* the gate's tolerance of 0.01 (33.333 / 33.333 / 33.333 / 0 is stored).
C28_StoredWeightsWithinTolerance ==
    []StoredWeightsOfLastRun(TOLERANCE) /\ [][WeightsChangeOnlyWithRun]_vars

\* weights totalling 99.999 are stored after an accepted run, and inputs
\* totalling 99 or 101 have since been refused
C28_Witness ==
    /\ Initialised /\ ~calculate_button
    /\ Total(corner_weights) = HUNDRED - 1
    /\ total_weight \in {99000, 101000}
    /\ center_best_combos = run_combos(corner_weights)

\* C29: a dual-sheet recompute whose configuration maps a rear corner to a
\* column that the rear sheet does not have ends in the ConfigurationError
\* path (the column is listed and the recompute stopped), never in a lookup
\* failure, because no mapped rear column is read before its existence check.
C29_AbsentRearColumnIsConfigurationError ==
    [][(RecomputeStep /\ using_multi_sheet
        /\ missing_cols(config', "LR", df_rear) \cup missing_cols(config', "RR", df_rear) # {})
       => (recompute_result' = "ConfigurationError" /\ listed_missing_cols' # {})]_vars

\* the index, in the sheet the recompute read, of the record a combination
\* of the working set takes a corner from
sheet_index(corner, k) ==
    IF ~using_multi_sheet
    THEN MinOf({i \in 1..Len(df) : /\ df[i].Center_Section = results_df[k].Center_Section
                                   /\ df[i].Clip = results_df[k].Clip})
    ELSE IF corner \in {"LF", "RF"}
    THEN MinOf({i \in 1..Len(df_front) :
                  /\ df_front[i].Center_Section = results_df[k].Center_Section
                  /\ df_front[i].Clip = results_df[k].Front_Clip})
    ELSE MinOf({i \in 1..Len(df_rear) :
                  /\ df_rear[i].Center_Section = results_df[k].Center_Section
                  /\ df_rear[i].Clip = results_df[k].Rear_Clip})

\* C30: for every combination of the ranked working set and every corner,
\* the lower mount (y and z) and the damper length the 3D visualizer derives
\* are the lower mount and the damper length the recompute used for that
\* combination, whether normalize_lca_z is set or not.
C30_VisualizerMatchesWorkingSet ==
    (results_from_upload /\ recompute_result = "complete") =>
        \A k \in 1..Len(results_df) : \A corner \in Corners :
            LET shown == IF using_multi_sheet
                         THEN visualizer_corner(corner, results_df[k].Center_Section,
                                                results_df[k].Front_Clip,
                                                results_df[k].Rear_Clip)
                         ELSE visualizer_corner(corner, results_df[k].Center_Section,
                                                results_df[k].Clip, results_df[k].Clip)
                i == sheet_index(corner, k)
            IN  /\ shown.lower.y = lower_mount_y[corner][i]
                /\ shown.lower.z = lca_center_z[corner][i]
                /\ shown.length = length_of(results_df[k], corner)
====
